---- MODULE Spec2Model ----
(***************************************************************************)
(* Model of the LOCA extension (src/src/extension.ts): the LOC counter,   *)
(* the symbol-tree analysis, the category buckets of a refresh, and the   *)
(* debounced update scheduler with its asynchronous provider calls.       *)
(***************************************************************************)
EXTENDS Integers, Sequences, FiniteSets, TLC

VARIABLES
  \* --- countLoc, one call (specification SpecLoc) ---
  document,       \* the lines of the document, each a sequence of characters
  symbol,         \* the DocumentSymbol handed to countLoc
  pcLoc,          \* position inside countLoc: "call", "loop", "done"
  signatureEndLine,
  lineNumber,     \* loop variable of countLoc
  loc,            \* accumulator of countLoc
  counted         \* history: the line numbers whose text was counted

locVars == <<symbol, pcLoc, signatureEndLine, lineNumber, loc, counted>>

VARIABLES
  \* --- analyzeDocument after the provider answered (specification SpecAnalyze) ---
  tree,           \* the symbol tree the provider returned
  stack,          \* the DFS stack (node ids)
  metrics,        \* the Map<string, FunctionMetric>, in insertion order
  visited,        \* history: the nodes in the order they were popped
  pcAn            \* "loop" or "done"

anVars == <<tree, stack, metrics, visited, pcAn>>

VARIABLES
  \* --- refreshDecorations after analyzeDocument resolved (SpecRefresh) ---
  refMetrics,     \* the metric list analyzeDocument resolved to
  refSink,        \* the decorations of the editor
  pcRef           \* "await" or "done"

refVars == <<refMetrics, refSink, pcRef>>

VARIABLES
  \* --- the extension between activate and deactivate (specification Spec) ---
  activeEditor,   \* "none" or an editor
  updateTimer,    \* the handle setTimeout returned last, or NoHandle
  timers,         \* the handles the host still has to fire
  timerCount,     \* number of setTimeout calls so far (the handle ids)
  now,            \* the clock, in milliseconds
  inflight,       \* the refreshDecorations calls awaiting the symbol provider
  runCount,       \* number of refreshDecorations calls so far (the run ids)
  sink,           \* the decorations of each editor
  docs,           \* the text of each editor's document
  deactivated,    \* deactivate() has run and the subscriptions are disposed
  \* history
  lastTrigger,    \* the time of the last triggerUpdate call
  burstLen,       \* number of triggerUpdate calls of the current burst
  burstRuns,      \* runs the timer started since the current burst began
  lastFire,       \* the time the timer callback ran last, -1 if never
  fired,          \* the ids of the handles whose callback ran
  lastReturned,   \* per editor: the run whose provider call returned last, the
                  \* metrics it got, and whether the answer had no function
  overtaken       \* a run applied its result after a newer run of the editor

schedVars == <<activeEditor, updateTimer, timers, timerCount, now, inflight, runCount,
               sink, docs, deactivated,
               lastTrigger, burstLen, burstRuns, lastFire, fired, lastReturned, overtaken>>

vars == <<document, locVars, anVars, refVars, schedVars>>

(***************************************************************************)
(* Bounds                                                                  *)
(***************************************************************************)
MaxLines == 4        \* number of lines of the documents of SpecLoc
MaxNodes == 3        \* number of nodes of the symbol trees of SpecAnalyze
MaxMetrics == 2      \* length of the metric lists of SpecRefresh
MaxLoc == 62         \* largest loc of the metrics of SpecRefresh
MaxTime == 375       \* the clock of Spec stops here
TickStep == 125      \* the clock advances by at most this much at once
MaxTimers == 3       \* setTimeout calls in a behaviour of Spec
MaxRuns == 2         \* refreshDecorations calls in a behaviour of Spec

\* setTimeout(() => refreshDecorations(editor), 250)
Debounce == 250

(***************************************************************************)
(* Text lines and the line classifier                                      *)
(***************************************************************************)
Whitespace == {" ", "\t"}

Max(a, b) == IF a >= b THEN a ELSE b

RECURSIVE TrimStart(_)
TrimStart(line) ==
  IF line # <<>> /\ Head(line) \in Whitespace THEN TrimStart(Tail(line)) ELSE line

RECURSIVE TrimEnd(_)
TrimEnd(line) ==
  IF line # <<>> /\ line[Len(line)] \in Whitespace
    THEN TrimEnd(SubSeq(line, 1, Len(line) - 1))
    ELSE line

\* String.prototype.trim
Trim(line) == TrimEnd(TrimStart(line))

\* String.prototype.startsWith
StartsWith(line, prefix) ==
  Len(line) >= Len(prefix) /\ SubSeq(line, 1, Len(prefix)) = prefix

\* String.prototype.endsWith, as the `\*\/$` tail of the regular expression
EndsWith(line, suffix) ==
  Len(line) >= Len(suffix)
    /\ SubSeq(line, Len(line) - Len(suffix) + 1, Len(line)) = suffix

\* /^\/\*.*\*\/$/ : "/*", any characters, "*/" (the two may not overlap)
MatchesBlockComment(trimmed) ==
  Len(trimmed) >= 4 /\ StartsWith(trimmed, <<"/", "*">>) /\ EndsWith(trimmed, <<"*", "/">>)

IsIgnorableLine(line) ==
  LET trimmed == Trim(line) IN
    IF trimmed = <<>> THEN TRUE
    ELSE IF \/ StartsWith(trimmed, <<"/", "/">>)
            \/ StartsWith(trimmed, <<"#">>)
            \/ StartsWith(trimmed, <<"-", "-">>)
            \/ StartsWith(trimmed, <<"/", "*">>)
            \/ StartsWith(trimmed, <<"*">>)
            \/ StartsWith(trimmed, <<"*", "/">>)
         THEN TRUE
    ELSE IF MatchesBlockComment(trimmed) THEN TRUE
    ELSE FALSE

(***************************************************************************)
(* Positions, ranges, symbols                                              *)
(***************************************************************************)
Position(l, c) == [line |-> l, character |-> c]

Range(sl, sc, el, ec) == [start |-> Position(sl, sc), end |-> Position(el, ec)]

\* document.lineAt(lineNumber).text ; line numbers are zero-based
LineAt(doc, n) == doc[n + 1]

(***************************************************************************)
(* countLoc                                                                *)
(***************************************************************************)
\* const signatureEndLine = Math.max(symbol.selectionRange.end.line, startLine)
SignatureEndLineNoClamp(sym) == sym.selectionRange.end.line

SignatureEndLine(sym) == Max(sym.selectionRange.end.line, sym.range.start.line)

\* first value of the loop variable
FirstBodyLine(sigEnd) == sigEnd + 1

\* body of the for loop: the new value of loc after reading one line
CountLocIter(doc, n, acc) ==
  IF ~IsIgnorableLine(LineAt(doc, n)) THEN acc + 1 ELSE acc

RECURSIVE CountLocLoop(_, _, _, _)
CountLocLoop(doc, n, endLine, acc) ==
  IF n <= endLine
    THEN CountLocLoop(doc, n + 1, endLine, CountLocIter(doc, n, acc))
    ELSE acc

CountLoc(doc, sym) ==
  LET endLine == sym.range.end.line
      sigEnd  == SignatureEndLine(sym)
  IN IF endLine <= sigEnd THEN 0
     ELSE CountLocLoop(doc, FirstBodyLine(sigEnd), endLine, 0)

\* the lines of the current document after the signature of sym, up to the
\* last line of its full range, that the line classifier does not ignore
BodyLines(sym) ==
  LET sigEnd == IF sym.selectionRange.end.line >= sym.range.start.line
                  THEN sym.selectionRange.end.line ELSE sym.range.start.line
  IN { n \in (sigEnd + 1)..sym.range.end.line : ~IsIgnorableLine(LineAt(document, n)) }

(***************************************************************************)
(* isFunctionSymbol, getMetricKey, analyzeDocument                         *)
(***************************************************************************)
IsFunctionSymbolNoConstructor(sym) ==
  sym.kind = "Function" \/ sym.kind = "Method"

IsFunctionSymbol(sym) ==
  sym.kind = "Function" \/ sym.kind = "Method" \/ sym.kind = "Constructor"

\* `${start.line}:${start.character}-${end.line}:${end.character}`
GetMetricKey(sym) ==
  LET start == sym.selectionRange.start
      end   == sym.selectionRange.end
  IN <<start.line, ":", start.character, "-", end.line, ":", end.character>>

\* Map.prototype.set on a map kept as a sequence of entries in insertion
\* order: an existing key keeps its place and takes the new value
MapSetKeepFirst(map, key, value) ==
  IF \E i \in 1..Len(map) : map[i].key = key
    THEN map
    ELSE Append(map, [key |-> key, value |-> value])

MapSet(map, key, value) ==
  IF \E i \in 1..Len(map) : map[i].key = key
    THEN [i \in 1..Len(map) |->
            IF map[i].key = key THEN [key |-> key, value |-> value] ELSE map[i]]
    ELSE Append(map, [key |-> key, value |-> value])

\* [...metrics.values()]
MapValues(map) == [i \in 1..Len(map) |-> map[i].value]

\* a symbol tree is a sequence of nodes, each naming its parent (0: a root);
\* symbol.children are the nodes of that parent, in order
RECURSIVE ChildrenFrom(_, _, _)
ChildrenFrom(t, parent, i) ==
  IF i > Len(t) THEN <<>>
  ELSE IF t[i].parent = parent THEN <<i>> \o ChildrenFrom(t, parent, i + 1)
  ELSE ChildrenFrom(t, parent, i + 1)

Children(t, id) == ChildrenFrom(t, id, 1)

Roots(t) == ChildrenFrom(t, 0, 1)

\* one iteration of `while (stack.length)`, lines 227-246
AnalyzeIter(doc, t, st) ==
  LET id      == st.stack[Len(st.stack)]
      sym     == t[id]
      popped  == SubSeq(st.stack, 1, Len(st.stack) - 1)
      pushed  == popped \o Children(t, id)
      n       == CountLoc(doc, sym)
  IN IF ~IsFunctionSymbol(sym)
       THEN [stack |-> pushed, metrics |-> st.metrics]
     ELSE IF n >= 0
       THEN [stack |-> pushed,
             metrics |-> MapSet(st.metrics, GetMetricKey(sym),
                                [range |-> sym.range,
                                 signatureRange |-> sym.selectionRange,
                                 loc |-> n])]
     ELSE [stack |-> pushed, metrics |-> st.metrics]

RECURSIVE AnalyzeLoop(_, _, _)
AnalyzeLoop(doc, t, st) ==
  IF Len(st.stack) > 0 THEN AnalyzeLoop(doc, t, AnalyzeIter(doc, t, st)) ELSE st

\* what executeDocumentSymbolProvider answers: the command rejects ("throw"),
\* resolves to undefined, or resolves to a symbol tree
Throws == [status |-> "throw", symbols |-> <<>>]

Undefined == [status |-> "undefined", symbols |-> <<>>]

Symbols(t) == [status |-> "symbols", symbols |-> t]

\* analyzeDocument, lines 207-250, given the provider's answer
AnalyzeDocument(doc, answer) ==
  LET symbols == IF answer.status = "throw" THEN Undefined ELSE answer
  IN IF symbols.status = "undefined" THEN <<>>
     ELSE MapValues(AnalyzeLoop(doc, symbols.symbols,
                                [stack |-> Roots(symbols.symbols),
                                 metrics |-> <<>>]).metrics)

(***************************************************************************)
(* getLocCategory, refreshDecorations, clearAllDecorations                 *)
(***************************************************************************)
GetLocCategoryExclusive(n) ==
  IF n < 35 THEN "green"
  ELSE IF n < 60 THEN "orange"
  ELSE "red"

GetLocCategory(n) ==
  IF n <= 35 THEN "green"
  ELSE IF n <= 60 THEN "orange"
  ELSE "red"

categoryColors == [green |-> "#4CAF50", orange |-> "#FF9800", red |-> "#F44336"]

\* the decorations of one editor: the ranges of each decoration type, as the
\* last setDecorations call for that type left them, and the function that
\* made the last calls
NoDecorations ==
  [green |-> <<>>, orange |-> <<>>, red |-> <<>>, inline |-> <<>>, by |-> "none"]

\* clearAllDecorations: every decoration type is set to the empty array
ClearAllDecorations ==
  [green |-> <<>>, orange |-> <<>>, red |-> <<>>, inline |-> <<>>,
   by |-> "clearAllDecorations"]

\* lines 168-182: the body of `for (const metric of metrics)`
RefreshIter(acc, metric) ==
  LET category == GetLocCategory(metric.loc)
      inlinePosition == metric.signatureRange.end
      entry == [range |-> [start |-> inlinePosition, end |-> inlinePosition],
                contentText |-> <<" LOC: ", metric.loc>>,
                color |-> categoryColors[category]]
  IN [acc EXCEPT ![category] = Append(@, metric.range),
                 !.inline = Append(@, entry)]

RECURSIVE RefreshLoop(_, _, _)
RefreshLoop(ms, i, acc) ==
  IF i > Len(ms) THEN acc ELSE RefreshLoop(ms, i + 1, RefreshIter(acc, ms[i]))

\* refreshDecorations from line 155 on: the decorations of the editor after
\* the refresh, given those before it and the metrics
RefreshDecorationsKeepOnEmpty(old, ms) ==
  IF Len(ms) = 0 THEN old
  ELSE RefreshLoop(ms, 1, [NoDecorations EXCEPT !.by = "refreshDecorations"])

RefreshDecorations(old, ms) ==
  IF Len(ms) = 0 THEN ClearAllDecorations
  ELSE RefreshLoop(ms, 1, [NoDecorations EXCEPT !.by = "refreshDecorations"])

(***************************************************************************)
(* The parts of the state a specification does not run stay at rest        *)
(***************************************************************************)
Editors == {"e1", "e2"}

\* `let updateTimer` before the first setTimeout: undefined
NoHandle == [id |-> 0, deadline |-> 0, editor |-> "none"]

\* no provider call of the editor has returned yet
NoReturn == [run |-> 0, metrics |-> <<>>, nodata |-> TRUE]

IdleDoc == document = <<>>

IdleLoc ==
  /\ symbol = [kind |-> "Function", range |-> Range(0, 0, 0, 0),
               selectionRange |-> Range(0, 0, 0, 0)]
  /\ pcLoc = "done"
  /\ signatureEndLine = 0
  /\ lineNumber = 0
  /\ loc = 0
  /\ counted = {}

IdleAn ==
  /\ tree = <<>>
  /\ stack = <<>>
  /\ metrics = <<>>
  /\ visited = <<>>
  /\ pcAn = "done"

IdleRef ==
  /\ refMetrics = <<>>
  /\ refSink = NoDecorations
  /\ pcRef = "done"

IdleSched ==
  /\ activeEditor = "none"
  /\ updateTimer = NoHandle
  /\ timers = {}
  /\ timerCount = 0
  /\ now = 0
  /\ inflight = {}
  /\ runCount = 0
  /\ sink = [e \in Editors |-> NoDecorations]
  /\ docs = [e \in Editors |-> <<>>]
  /\ deactivated = TRUE
  /\ lastTrigger = -Debounce
  /\ burstLen = 0
  /\ burstRuns = 0
  /\ lastFire = -1
  /\ fired = {}
  /\ lastReturned = [e \in Editors |-> NoReturn]
  /\ overtaken = FALSE

(***************************************************************************)
(* SpecRefresh: refreshDecorations on a metric list                        *)
(***************************************************************************)
\* the loc values next to the two thresholds
BoundaryLocs == {35, 36, 60, 61}

\* the metric lists of length n: metric i has its own signature range; the
\* full ranges are either all different or all the same (functions reported
\* with one full range); the first loc is any, the others are next to a
\* threshold
MetricLists(n) ==
  { [i \in 1..n |->
       [range |-> IF shared THEN Range(0, 0, MaxLoc + 1, 1)
                            ELSE Range(i, 0, i + locs[i], 1),
        signatureRange |-> Range(i, 4, i, 9),
        loc |-> locs[i]]] :
    <<locs, shared>> \in { f \in [1..n -> 0..MaxLoc] :
                             \A i \in 2..n : f[i] \in BoundaryLocs } \X BOOLEAN }

InitRef ==
  /\ \E n \in 0..MaxMetrics : refMetrics \in MetricLists(n)
  /\ refSink = NoDecorations
  /\ pcRef = "await"
  /\ IdleDoc /\ IdleLoc /\ IdleAn /\ IdleSched

\* lines 155-158
RefreshClear ==
  /\ pcRef = "await"
  /\ Len(refMetrics) = 0
  /\ refSink' = RefreshDecorations(refSink, refMetrics)
  /\ pcRef' = "done"
  /\ UNCHANGED <<refMetrics, document, locVars, anVars, schedVars>>

\* lines 160-189
RefreshApply ==
  /\ pcRef = "await"
  /\ Len(refMetrics) > 0
  /\ refSink' = RefreshDecorations(refSink, refMetrics)
  /\ pcRef' = "done"
  /\ UNCHANGED <<refMetrics, document, locVars, anVars, schedVars>>

NextRef == RefreshClear \/ RefreshApply

\* the full ranges of the metrics of ms whose loc is in the set locs, in order
RECURSIVE RangesWhere(_, _, _)
RangesWhere(ms, i, locs) ==
  IF i > Len(ms) THEN <<>>
  ELSE IF ms[i].loc \in locs THEN <<ms[i].range>> \o RangesWhere(ms, i + 1, locs)
  ELSE RangesWhere(ms, i + 1, locs)

\* C4: in a refresh with a non-empty metric list every metric's full range is
\* handed over in exactly one bucket: low (green) when loc <= 35, medium
\* (orange) when 36 <= loc <= 60, high (red) when loc > 60; every
\* non-negative loc has a category.
C4_Buckets ==
  LET Low    == { n \in 0..MaxLoc : n <= 35 }
      Medium == { n \in 0..MaxLoc : 36 <= n /\ n <= 60 }
      High   == { n \in 0..MaxLoc : n > 60 }
  IN /\ \A n \in 0..MaxLoc : GetLocCategory(n) \in {"green", "orange", "red"}
     /\ pcRef = "done" /\ Len(refMetrics) > 0 =>
          /\ refSink.green  = RangesWhere(refMetrics, 1, Low)
          /\ refSink.orange = RangesWhere(refMetrics, 1, Medium)
          /\ refSink.red    = RangesWhere(refMetrics, 1, High)
          /\ Len(refSink.green) + Len(refSink.orange) + Len(refSink.red)
               = Len(refMetrics)

\* a refresh put a metric of loc 35 in the low bucket and one of loc 36 in
\* the medium bucket, both with the same full range
C4_Witness ==
  /\ pcRef = "done"
  /\ Len(refMetrics) = 2
  /\ refMetrics[1].loc = 35 /\ refMetrics[2].loc = 36
  /\ refMetrics[1].range = refMetrics[2].range
  /\ Len(refSink.green) = 1 /\ Len(refSink.orange) = 1

(***************************************************************************)
(* SpecAnalyze: the traversal of analyzeDocument on a symbol tree          *)
(***************************************************************************)
\* line 0 is a signature line; body lines mix code, blank and comment lines
AnDocuments ==
  { << <<"x">>, <<"x">>, <<"x">>, <<>>, <<"x">>, <<"/", "/">> >>,
    << <<"x">>, <<"#">>, <<"x">>, <<"x">>, <<" ">>, <<"x">> >> }

SelA  == Range(0, 0, 0, 3)
SelA2 == Range(0, 0, 0, 4)
SelB  == Range(2, 1, 2, 4)

\* kind, full range and selection range of a node; several shapes share the
\* selection range SelA with different kinds and full ranges
NodeShapes ==
  { [kind |-> "Function",    range |-> Range(0, 0, 3, 1), selectionRange |-> SelA],
    [kind |-> "Method",      range |-> Range(0, 0, 5, 1), selectionRange |-> SelA],
    [kind |-> "Constructor", range |-> Range(2, 0, 4, 1), selectionRange |-> SelB],
    [kind |-> "Class",       range |-> Range(0, 0, 5, 1), selectionRange |-> SelA],
    [kind |-> "Function",    range |-> Range(0, 0, 5, 1), selectionRange |-> SelA2],
    [kind |-> "Namespace",   range |-> Range(2, 0, 5, 1), selectionRange |-> SelB],
    [kind |-> "Method",      range |-> Range(2, 0, 5, 1), selectionRange |-> SelB] }

\* the parents of a forest of n nodes: node i hangs under a node before it
\* or is a root (0)
ParentMaps(n) == { p \in [1..n -> 0..n] : \A i \in 1..n : p[i] < i }

\* the forest whose node i has the shape sh[i] and the parent par[i]
TreeOf(n, sh, par) ==
  [i \in 1..n |-> [kind |-> sh[i].kind, range |-> sh[i].range,
                   selectionRange |-> sh[i].selectionRange, parent |-> par[i]]]

\* lines 223-224: the provider answered with a tree
InitAn ==
  /\ document \in AnDocuments
  /\ \E n \in 0..MaxNodes :
       \E sh \in [1..n -> NodeShapes], par \in ParentMaps(n) : tree = TreeOf(n, sh, par)
  /\ stack = Roots(tree)
  /\ metrics = <<>>
  /\ visited = <<>>
  /\ pcAn = "loop"
  /\ IdleLoc /\ IdleRef /\ IdleSched

\* lines 226-247
AnalyzeStep ==
  /\ pcAn = "loop"
  /\ Len(stack) > 0
  /\ LET st == AnalyzeIter(document, tree, [stack |-> stack, metrics |-> metrics])
     IN /\ stack' = st.stack
        /\ metrics' = st.metrics
  /\ visited' = Append(visited, stack[Len(stack)])
  /\ UNCHANGED <<document, tree, pcAn, locVars, refVars, schedVars>>

\* line 249
AnalyzeReturn ==
  /\ pcAn = "loop"
  /\ Len(stack) = 0
  /\ pcAn' = "done"
  /\ UNCHANGED <<document, tree, stack, metrics, visited, locVars, refVars, schedVars>>

NextAn == AnalyzeStep \/ AnalyzeReturn

\* the value analyzeDocument returns
Result == MapValues(metrics)

FunctionNodes == { i \in 1..Len(tree) : tree[i].kind \in {"Function", "Method", "Constructor"} }

\* the function-like node with the selection range sel that was popped last
LastVisited(sel) ==
  LET idx == { k \in 1..Len(visited) :
                 visited[k] \in FunctionNodes /\ tree[visited[k]].selectionRange = sel }
  IN visited[CHOOSE k \in idx : \A j \in idx : j <= k]

\* C2: function-like nodes with an identical signature range give exactly one
\* metric for that range, and its range and loc are those of the node the
\* traversal encountered last.
C2_LastWriteWins ==
  pcAn = "done" =>
    \A n \in FunctionNodes :
      LET sel  == tree[n].selectionRange
          hits == { i \in 1..Len(Result) : Result[i].signatureRange = sel }
          last == tree[LastVisited(sel)]
      IN /\ Cardinality(hits) = 1
         /\ \A i \in hits :
              /\ Result[i].range = last.range
              /\ Result[i].loc = Cardinality(BodyLines(last))

\* two function-like nodes share a signature range, differ in full range and
\* loc, and the one popped last is not the one inserted first
C2_Witness ==
  /\ pcAn = "done"
  /\ \E a, b \in 1..Len(visited) :
       /\ a < b
       /\ {visited[a], visited[b]} \subseteq FunctionNodes
       /\ tree[visited[a]].selectionRange = tree[visited[b]].selectionRange
       /\ tree[visited[a]].range # tree[visited[b]].range
       /\ Cardinality(BodyLines(tree[visited[a]])) # Cardinality(BodyLines(tree[visited[b]]))
       /\ Len(Result) = 1

\* C3: the traversal visits every node at every depth, whether or not its
\* parent is function-like; the signature ranges of the output are exactly
\* those of the Function, Method and Constructor nodes of the tree.
C3_AllFunctionsFound ==
  pcAn = "done" =>
    /\ Len(visited) = Len(tree)
    /\ { visited[k] : k \in 1..Len(visited) } = 1..Len(tree)
    /\ { Result[i].signatureRange : i \in 1..Len(Result) }
         = { tree[n].selectionRange : n \in FunctionNodes }

\* a constructor nested under a non-function container that is itself nested
\* under a non-function container was found, and the containers gave no metric
C3_Witness ==
  /\ pcAn = "done"
  /\ Len(Result) = 1
  /\ \E n \in 1..Len(tree) :
       /\ tree[n].kind = "Constructor"
       /\ tree[n].parent # 0
       /\ tree[tree[n].parent].kind \in {"Class", "Namespace"}
       /\ tree[tree[n].parent].parent # 0
       /\ tree[tree[tree[n].parent].parent].kind = "Class"

(***************************************************************************)
(* SpecLoc: one call of countLoc on a document and a symbol                *)
(***************************************************************************)
\* sample line texts: blank, line comment, code, code holding a '#'
SampleLines ==
  { <<" ", "\t">>,
    <<" ", "/", "/", "x">>,
    <<"x", "#">>,
    <<" ", "-", "x", " ">> }

Documents == [1..MaxLines -> SampleLines]

\* symbols whose lines exist in the document; the selection range may end
\* before the full range starts (malformed) or after it ends
LocSymbols ==
  { [kind |-> "Function",
     range |-> Range(s, 0, e, 1),
     selectionRange |-> Range(g, 0, g, 1)] :
       <<s, e, g>> \in { t \in (0..MaxLines-1) \X (0..MaxLines-1) \X (0..MaxLines-1) :
                           t[1] <= t[2] } }

InitLoc ==
  /\ document \in Documents
  /\ symbol \in LocSymbols
  /\ pcLoc = "call"
  /\ signatureEndLine = 0
  /\ lineNumber = 0
  /\ loc = 0
  /\ counted = {}
  /\ IdleAn /\ IdleRef /\ IdleSched

\* lines 268-276: the clamp, the early return, the loop initialisation
LocEnter ==
  /\ pcLoc = "call"
  /\ signatureEndLine' = SignatureEndLine(symbol)
  /\ IF symbol.range.end.line <= signatureEndLine'
       THEN /\ pcLoc' = "done"
            /\ loc' = 0
            /\ UNCHANGED lineNumber
       ELSE /\ pcLoc' = "loop"
            /\ loc' = 0
            /\ lineNumber' = FirstBodyLine(signatureEndLine')
  /\ UNCHANGED <<document, symbol, counted, anVars, refVars, schedVars>>

\* lines 277-282: one iteration of the for loop
LocIter ==
  /\ pcLoc = "loop"
  /\ lineNumber <= symbol.range.end.line
  /\ loc' = CountLocIter(document, lineNumber, loc)
  /\ counted' = IF loc' # loc THEN counted \cup {lineNumber} ELSE counted
  /\ lineNumber' = lineNumber + 1
  /\ UNCHANGED <<document, symbol, pcLoc, signatureEndLine, anVars, refVars, schedVars>>

\* line 284: return loc
LocExit ==
  /\ pcLoc = "loop"
  /\ lineNumber > symbol.range.end.line
  /\ pcLoc' = "done"
  /\ UNCHANGED <<document, symbol, signatureEndLine, lineNumber, loc, counted>>
  /\ UNCHANGED <<anVars, refVars, schedVars>>

NextLoc == LocEnter \/ LocIter \/ LocExit

\* C1: countLoc returns 0 when fullRange.end.line <= signatureEndLine, and
\* otherwise exactly the number of lines signatureEndLine+1 .. fullRange.end.line
\* that the line classifier does not mark ignorable, with signatureEndLine =
\* max(signatureRange.end.line, fullRange.start.line); no line at or before
\* signatureEndLine is ever counted.
C1_CountLocExact ==
  LET sigEnd == IF symbol.selectionRange.end.line >= symbol.range.start.line
                  THEN symbol.selectionRange.end.line ELSE symbol.range.start.line
  IN /\ \A n \in counted : n > sigEnd /\ n <= symbol.range.end.line
     /\ pcLoc = "done" =>
          /\ symbol.range.end.line <= sigEnd => loc = 0
          /\ symbol.range.end.line > sigEnd => loc = Cardinality(BodyLines(symbol))
          /\ counted = BodyLines(symbol)
          /\ loc = CountLoc(document, symbol)

\* a malformed symbol (signature ends before the full range starts) whose body
\* holds both counted and ignorable lines has been counted
C1_Witness ==
  /\ pcLoc = "done"
  /\ symbol.selectionRange.end.line < symbol.range.start.line
  /\ loc >= 1
  /\ loc < symbol.range.end.line - symbol.range.start.line

(***************************************************************************)
(* Spec: activate, the event handlers, the debounce timer, the provider    *)
(***************************************************************************)
\* two versions of a document's text
SchedDocuments ==
  { << <<"x">>, <<"x">>, <<>>, <<"x">> >>,
    << <<"x">>, <<"/", "/">>, <<>>, <<"#">> >> }

SchedNode(k, r, sel, par) ==
  [kind |-> k, range |-> r, selectionRange |-> sel, parent |-> par]

\* what executeDocumentSymbolProvider may answer: a rejection, undefined, or
\* a symbol tree (empty; a class alone; a class with a method)
Answers ==
  { Throws, Undefined,
    Symbols(<<>>),
    Symbols(<< SchedNode("Class", Range(0, 0, 3, 1), Range(0, 6, 0, 9), 0) >>),
    Symbols(<< SchedNode("Class", Range(0, 0, 3, 1), Range(0, 6, 0, 9), 0),
               SchedNode("Method", Range(1, 0, 3, 1), Range(1, 2, 1, 5), 1) >>) }

\* lines 130-132: the handles still to fire after
\* `if (updateTimer) clearTimeout(updateTimer)`
TimersAfterClearNoClear(ts, handle) == ts

TimersAfterClear(ts, handle) ==
  IF handle # NoHandle THEN ts \ {handle} ELSE ts

\* line 118: clearTimeout(updateTimer); clearing undefined or a handle that
\* has fired does nothing
TimersAfterDeactivateNoClear(ts, handle) == ts

TimersAfterDeactivate(ts, handle) == ts \ {handle}

\* a timer callback is due
TimerDue == \E h \in timers : h.deadline <= now

\* triggerUpdate(editor), lines 129-135
TriggerUpdate(editor) ==
  LET handle == [id |-> timerCount + 1, deadline |-> now + Debounce, editor |-> editor]
  IN /\ timerCount < MaxTimers
     /\ timers' = TimersAfterClear(timers, updateTimer) \cup {handle}
     /\ updateTimer' = handle
     /\ timerCount' = timerCount + 1
     /\ lastTrigger' = now
     /\ IF now - lastTrigger < Debounce
          THEN burstLen' = burstLen + 1 /\ UNCHANGED burstRuns
          ELSE burstLen' = 1 /\ burstRuns' = 0

NoTrigger == UNCHANGED <<timers, updateTimer, timerCount, lastTrigger, burstLen, burstRuns>>

\* refreshDecorations(editor) up to its await, lines 152-153 and 211-214
StartRunSuperseding(editor, starter) ==
  /\ runCount < MaxRuns
  /\ inflight' = {[id |-> runCount + 1, editor |-> editor, by |-> starter]}
  /\ runCount' = runCount + 1

StartRun(editor, starter) ==
  /\ runCount < MaxRuns
  /\ inflight' = inflight \cup {[id |-> runCount + 1, editor |-> editor, by |-> starter]}
  /\ runCount' = runCount + 1

\* activate, lines 106-109: the editor that is active at start-up, if any,
\* gets a first debounce cycle
Init ==
  /\ activeEditor \in Editors \cup {"none"}
  /\ now = 0
  /\ IF activeEditor # "none"
       THEN /\ updateTimer = [id |-> 1, deadline |-> Debounce, editor |-> activeEditor]
            /\ timers = {updateTimer}
            /\ timerCount = 1
            /\ lastTrigger = 0
            /\ burstLen = 1
       ELSE /\ updateTimer = NoHandle
            /\ timers = {}
            /\ timerCount = 0
            /\ lastTrigger = -Debounce
            /\ burstLen = 0
  /\ burstRuns = 0
  /\ inflight = {}
  /\ runCount = 0
  /\ sink = [e \in Editors |-> NoDecorations]
  /\ docs \in [Editors -> SchedDocuments]
  /\ deactivated = FALSE
  /\ lastFire = -1
  /\ fired = {}
  /\ lastReturned = [e \in Editors |-> NoReturn]
  /\ overtaken = FALSE
  /\ IdleDoc /\ IdleLoc /\ IdleAn /\ IdleRef

\* the host dispatches an event to a handler of context.subscriptions: not
\* after deactivate, and not while a timer callback is due
HostEvent == ~deactivated /\ ~TimerDue

\* the loca.recalculateMetrics command, lines 79-87
Recalculate ==
  /\ HostEvent
  /\ IF activeEditor = "none"
       THEN UNCHANGED <<inflight, runCount>>
       ELSE StartRun(activeEditor, "command")
  /\ NoTrigger
  /\ UNCHANGED <<activeEditor, now, sink, docs, deactivated,
                 lastFire, fired, lastReturned, overtaken>>
  /\ UNCHANGED <<document, locVars, anVars, refVars>>

\* onDidChangeActiveTextEditor, lines 93-98
ChangeActiveTextEditor(editor) ==
  /\ HostEvent
  /\ editor # activeEditor
  /\ activeEditor' = editor
  /\ IF editor # "none" THEN TriggerUpdate(editor) ELSE NoTrigger
  /\ UNCHANGED <<now, inflight, runCount, sink, docs, deactivated,
                 lastFire, fired, lastReturned, overtaken>>
  /\ UNCHANGED <<document, locVars, anVars, refVars>>

\* onDidChangeTextDocument, lines 99-103: the text of editor's document changes
ChangeTextDocument(editor, text) ==
  /\ HostEvent
  /\ text # docs[editor]
  /\ docs' = [docs EXCEPT ![editor] = text]
  /\ IF activeEditor # "none" /\ editor = activeEditor
       THEN TriggerUpdate(activeEditor)
       ELSE NoTrigger
  /\ UNCHANGED <<activeEditor, now, inflight, runCount, sink, deactivated,
                 lastFire, fired, lastReturned, overtaken>>
  /\ UNCHANGED <<document, locVars, anVars, refVars>>

\* the callback of setTimeout, line 134
TimerFire(handle) ==
  /\ handle \in timers
  /\ handle.deadline <= now
  /\ timers' = timers \ {handle}
  /\ StartRun(handle.editor, "timer")
  /\ burstRuns' = burstRuns + 1
  /\ lastFire' = now
  /\ fired' = fired \cup {handle.id}
  /\ UNCHANGED <<activeEditor, updateTimer, timerCount, now, sink, docs,
                 deactivated, lastTrigger, burstLen, lastReturned, overtaken>>
  /\ UNCHANGED <<document, locVars, anVars, refVars>>

\* the provider's answer holds no function-like symbol
NoFunctionLike(answer) ==
  \/ answer.status \in {"throw", "undefined"}
  \/ \A i \in 1..Len(answer.symbols) :
       answer.symbols[i].kind \notin {"Function", "Method", "Constructor"}

\* the provider call of a run settles: the rest of analyzeDocument and of
\* refreshDecorations, lines 215-249 and 155-189
ProviderReturn(run, answer) ==
  /\ run \in inflight
  /\ LET ms == AnalyzeDocument(docs[run.editor], answer)
         after == RefreshDecorations(sink[run.editor], ms)
     IN /\ sink' = [sink EXCEPT ![run.editor] = after]
        /\ lastReturned' = [lastReturned EXCEPT ![run.editor] = [run |-> run.id, metrics |-> ms, nodata |-> NoFunctionLike(answer)]]
        /\ overtaken' = \/ overtaken
                        \/ /\ lastReturned[run.editor].run > run.id
                           /\ after # sink[run.editor]
  /\ inflight' = inflight \ {run}
  /\ NoTrigger
  /\ UNCHANGED <<activeEditor, now, runCount, docs, deactivated, lastFire, fired>>
  /\ UNCHANGED <<document, locVars, anVars, refVars>>

\* deactivate, lines 117-119; the host then disposes context.subscriptions
Deactivate ==
  /\ HostEvent
  /\ deactivated' = TRUE
  /\ timers' = TimersAfterDeactivate(timers, updateTimer)
  /\ UNCHANGED <<activeEditor, updateTimer, timerCount, now, inflight, runCount, sink,
                 docs, lastTrigger, burstLen, burstRuns, lastFire, fired,
                 lastReturned, overtaken>>
  /\ UNCHANGED <<document, locVars, anVars, refVars>>

\* time passes, up to the next deadline
Tick ==
  /\ ~TimerDue
  /\ now < MaxTime
  /\ LET next == now + TickStep
         due  == { h.deadline : h \in timers }
     IN now' = IF \E d \in due : d < next
                 THEN CHOOSE d \in due : \A d2 \in due : d <= d2
                 ELSE next
  /\ NoTrigger
  /\ UNCHANGED <<activeEditor, inflight, runCount, sink, docs, deactivated,
                 lastFire, fired, lastReturned, overtaken>>
  /\ UNCHANGED <<document, locVars, anVars, refVars>>

Next ==
  \/ Recalculate
  \/ \E editor \in Editors \cup {"none"} : ChangeActiveTextEditor(editor)
  \/ \E editor \in Editors, text \in SchedDocuments : ChangeTextDocument(editor, text)
  \/ \E handle \in timers : TimerFire(handle)
  \/ \E run \in inflight, answer \in Answers : ProviderReturn(run, answer)
  \/ Deactivate
  \/ Tick

\* C5: a burst of debounced triggers, each less than 250ms after the one
\* before, gives exactly one run started by the timer; it starts only once
\* 250ms have passed since the last trigger, and no run starts between two
\* triggers of the burst.
C5_Debounce ==
  /\ burstRuns <= 1
  /\ burstLen >= 1 /\ updateTimer \in timers =>
       burstRuns = 0 /\ updateTimer.deadline = lastTrigger + 250
  /\ burstRuns = 1 => lastFire >= lastTrigger + 250 /\ timers = {}
  /\ burstLen >= 1 /\ updateTimer \notin timers /\ ~deactivated => burstRuns = 1

\* three triggers, each less than 250ms after the one before, and then the
\* single run, 250ms after the last of them
C5_Witness ==
  /\ burstLen >= 3
  /\ lastTrigger > 0
  /\ burstRuns = 1
  /\ lastFire = lastTrigger + 250
  /\ fired = {updateTimer.id}

\* C6: a manual "recalculate now" request with an active document starts a run
\* at once and cancels the debounce timer pending at that moment, so that the
\* earlier timer starts no second run afterwards.
C6_ManualCancelsTimer ==
  [][ Recalculate /\ activeEditor # "none" =>
        /\ runCount' = runCount + 1
        /\ \E r \in inflight' \ inflight : r.by = "command" /\ r.editor = activeEditor
        /\ timers' = {} ]_vars

\* C7: when the active editor changes, to another document or to none, the
\* debounce timer pending for the previous one is cancelled; a new document
\* gets a fresh debounce cycle and no run starts inline.
C7_SwitchCancelsTimer ==
  [][ \A editor \in Editors \cup {"none"} :
        ChangeActiveTextEditor(editor) =>
          /\ \A h \in timers' : h.editor = editor /\ h.deadline = now + 250
          /\ editor # "none" => timers' # {}
          /\ runCount' = runCount /\ inflight' = inflight ]_vars

C9_NoDataClears ==
  \A e \in Editors :
    lastReturned[e] # NoReturn /\ lastReturned[e].nodata =>
      /\ lastReturned[e].metrics = <<>>
      /\ sink[e].by = "clearAllDecorations"
      /\ sink[e].inline = <<>>
      /\ sink[e].green = <<>>
      /\ sink[e].orange = <<>>
      /\ sink[e].red = <<>>

\* a refresh without data cleared the decorations an earlier return had set
C9_Witness ==
  \E e \in Editors :
    /\ overtaken
    /\ \A o \in Editors \ {e} : lastReturned[o] = NoReturn
    /\ lastReturned[e].nodata
    /\ sink[e].by = "clearAllDecorations"

\* C10: a trigger that arrives while a run awaits the provider restarts the
\* debounce timer and leaves the run in flight; every started run applies its
\* result when its provider call returns, newer runs notwithstanding, so the
\* decorations are those of the provider call that returned last.
C10_StaleRunsApply ==
  /\ [](\A e \in Editors :
          lastReturned[e] # NoReturn =>
            LET ms == lastReturned[e].metrics IN
              /\ sink[e].by = IF Len(ms) = 0 THEN "clearAllDecorations"
                                             ELSE "refreshDecorations"
              /\ Len(sink[e].inline) = Len(ms)
              /\ \A i \in 1..Len(ms) :
                   /\ sink[e].inline[i].contentText = <<" LOC: ", ms[i].loc>>
                   /\ sink[e].inline[i].range.start = ms[i].signatureRange.end)
  /\ [][ /\ timerCount' # timerCount =>
              /\ inflight' = inflight
              /\ timers' = {updateTimer'}
              /\ updateTimer'.deadline = now + 250
         /\ \A r \in inflight \ inflight' : lastReturned'[r.editor].run = r.id ]_vars

\* the older of two runs of an editor returned after the newer one had
\* applied its result, and its decorations replaced those of the newer run
C10_Witness ==
  \E e \in Editors :
    /\ overtaken
    /\ runCount = 2
    /\ lastReturned[e].run = 1
    /\ sink[e].by = "refreshDecorations"
    /\ inflight = {}

(***************************************************************************)
(* Specifications                                                          *)
(***************************************************************************)
SpecLoc == InitLoc /\ [][NextLoc]_vars

SpecAnalyze == InitAn /\ [][NextAn]_vars

SpecRefresh == InitRef /\ [][NextRef]_vars

Spec == Init /\ [][Next]_vars
====
